---------------------------- MODULE Spec2Model ----------------------------
(***************************************************************************)
(* A model of caffe's UnpoolingLayer (src/caffe/layers/unpooling_layer.cpp) *)
(* as a state machine: LayerSetUp resolves and validates the kernel / pad / *)
(* stride configuration, Reshape derives the unpooled output shape, and     *)
(* Forward_cpu / Backward_cpu scatter and gather through the index mask.    *)
(*                                                                         *)
(* Blobs are flat row-major buffers (functions 0..count-1 -> value); the    *)
(* kernels walk them with the same moving base offsets as the pointers of   *)
(* the C++ loops.                                                           *)
(***************************************************************************)
EXTENDS Integers, Sequences, FiniteSets

VARIABLES
  unpool_param,      \* the UnpoolingParameter message: each optional field <<>> or <<v>>
  status,            \* "new" (constructed), "ready" (LayerSetUp returned), "failed" (a CHECK aborted)
  check_failed,      \* which CHECK of LayerSetUp aborted, "none" otherwise
  kernel_h_, kernel_w_, pad_h_, pad_w_, stride_h_, stride_w_,
  channels_, height_, width_, unpooled_height_, unpooled_width_,
  bottom_shape,      \* shape <<num, channels, height, width>> of bottom[0] (and of the mask bottom[1])
  top_shape,         \* shape of top[0]
  bottom_data,       \* bottom[0]->cpu_data()
  bottom_diff,       \* bottom[0]->cpu_diff()
  bottom_mask,       \* bottom[1]->cpu_data()
  top_data,          \* top[0]->cpu_data()
  top_diff,          \* top[0]->cpu_diff()
  forwarded,         \* top_data holds the result of a Forward_cpu call on the current inputs
  reshapes,          \* how many Reshape calls ran (capped at MaxReshapes)
  last               \* the last operation that ran

resolved == <<kernel_h_, kernel_w_, pad_h_, pad_w_, stride_h_, stride_w_>>
shapeState == <<channels_, height_, width_, unpooled_height_, unpooled_width_,
                bottom_shape, top_shape>>
buffers == <<bottom_data, bottom_diff, bottom_mask, top_data, top_diff, forwarded>>
vars == <<unpool_param, status, check_failed, resolved, shapeState, buffers,
          reshapes, last>>

----------------------------------------------------------------------------
(* Bounds of the model *)

MaxKernel == 2     \* kernel_size, kernel_h, kernel_w range over 0..MaxKernel
MaxPad == 1        \* pad, pad_h, pad_w range over 0..MaxPad
MaxStride == 1     \* stride, stride_h, stride_w range over 0..MaxStride
MaxDim == 2        \* Reshape: each axis of the input shape ranges over 1..MaxDim
MaxReshapes == 2   \* Reshape is followed for this many calls
MaxNum == 2        \* kernels: batch size of the input ranges over 1..MaxNum
MaxChannels == 2   \* kernels: channels of the input range over 1..MaxChannels
MaxSlices == 4     \* kernels: at most this many (batch, channel) slices
MaxSeed == 1       \* kernels: the input values are seed, seed+1, ... for seed in 0..MaxSeed

(* Defaults of the optional scalar fields when absent (caffe.proto).        *)
DefaultPad == 0
DefaultStride == 1

----------------------------------------------------------------------------
(* The configuration message *)

Optional(max) == {<<>>} \cup {<<v>> : v \in 0..max}

Has(f) == Len(f) = 1

Get(f, default) == IF Has(f) THEN f[1] ELSE default

Params ==
  [kernel_size : Optional(MaxKernel), kernel_h : Optional(MaxKernel),
   kernel_w : Optional(MaxKernel),
   pad : Optional(MaxPad), pad_h : Optional(MaxPad), pad_w : Optional(MaxPad),
   stride : Optional(MaxStride), stride_h : Optional(MaxStride),
   stride_w : Optional(MaxStride)]

----------------------------------------------------------------------------
(* LayerSetUp: the presence CHECKs of lines 19-32 *)

KernelFormCheckNoXor(p) ==
  Has(p.kernel_size) \/ (Has(p.kernel_h) /\ Has(p.kernel_w))

KernelFormCheck(p) ==
  (~Has(p.kernel_size)) # (~(Has(p.kernel_h) /\ Has(p.kernel_w)))

KernelRequiredCheck(p) ==
  Has(p.kernel_size) \/ (Has(p.kernel_h) /\ Has(p.kernel_w))

PadFormCheckIgnoresScalar(p) ==
  \/ (Has(p.pad_h) /\ Has(p.pad_w))
  \/ (~Has(p.pad_h) /\ ~Has(p.pad_w))

PadFormCheck(p) ==
  \/ (~Has(p.pad) /\ Has(p.pad_h) /\ Has(p.pad_w))
  \/ (~Has(p.pad_h) /\ ~Has(p.pad_w))

StrideFormCheck(p) ==
  \/ (~Has(p.stride) /\ Has(p.stride_h) /\ Has(p.stride_w))
  \/ (~Has(p.stride_h) /\ ~Has(p.stride_w))

(* The first presence CHECK that aborts, in source order. *)
FormFailure(p) ==
  IF ~KernelFormCheck(p) THEN "kernel_form"
  ELSE IF ~KernelRequiredCheck(p) THEN "kernel_required"
  ELSE IF ~PadFormCheck(p) THEN "pad_form"
  ELSE IF ~StrideFormCheck(p) THEN "stride_form"
  ELSE "none"

(* Lines 34-39, 43-48, 51-56: the resolved values. *)
ResolveKernelH(p) == IF Has(p.kernel_size) THEN p.kernel_size[1] ELSE p.kernel_h[1]
ResolveKernelW(p) == IF Has(p.kernel_size) THEN p.kernel_size[1] ELSE p.kernel_w[1]
ResolvePadH(p) == IF ~Has(p.pad_h) THEN Get(p.pad, DefaultPad) ELSE p.pad_h[1]
ResolvePadW(p) == IF ~Has(p.pad_h) THEN Get(p.pad, DefaultPad) ELSE p.pad_w[1]
ResolveStrideH(p) == IF ~Has(p.stride_h) THEN Get(p.stride, DefaultStride) ELSE p.stride_h[1]
ResolveStrideW(p) == IF ~Has(p.stride_h) THEN Get(p.stride, DefaultStride) ELSE p.stride_w[1]

(* Lines 40-41: CHECK_GT(kernel, 0). *)
KernelPositive(k) == k > 0

(* Lines 57-60: the first CHECK_LT that aborts, "none" when both pass or    *)
(* when both pads are zero.                                                 *)
PadFailureOnlyHeight(ph, pw, kh, kw) ==
  IF ph # 0 \/ pw # 0
  THEN IF ~(ph < kh) THEN "pad_h_lt_kernel_h" ELSE "none"
  ELSE "none"

PadFailure(ph, pw, kh, kw) ==
  IF ph # 0 \/ pw # 0
  THEN IF ~(ph < kh) THEN "pad_h_lt_kernel_h"
       ELSE IF ~(pw < kw) THEN "pad_w_lt_kernel_w"
       ELSE "none"
  ELSE "none"

LayerSetUp ==
  /\ status = "new"
  /\ LET p == unpool_param
         form == FormFailure(p)
     IN IF form # "none"
        THEN /\ status' = "failed"
             /\ check_failed' = form
             /\ UNCHANGED resolved
        ELSE LET kh == ResolveKernelH(p)
                 kw == ResolveKernelW(p)
                 ph == ResolvePadH(p)
                 pw == ResolvePadW(p)
                 padFail == PadFailure(ph, pw, kh, kw)
             IN /\ kernel_h_' = kh
                /\ kernel_w_' = kw
                /\ IF ~KernelPositive(kh)
                   THEN /\ status' = "failed"
                        /\ check_failed' = "kernel_h_gt_0"
                        /\ UNCHANGED <<pad_h_, pad_w_, stride_h_, stride_w_>>
                   ELSE IF ~KernelPositive(kw)
                   THEN /\ status' = "failed"
                        /\ check_failed' = "kernel_w_gt_0"
                        /\ UNCHANGED <<pad_h_, pad_w_, stride_h_, stride_w_>>
                   ELSE /\ pad_h_' = ph
                        /\ pad_w_' = pw
                        /\ stride_h_' = ResolveStrideH(p)
                        /\ stride_w_' = ResolveStrideW(p)
                        /\ check_failed' = padFail
                        /\ status' = IF padFail = "none" THEN "ready" ELSE "failed"
  /\ last' = "setup"
  /\ UNCHANGED <<unpool_param, shapeState, buffers, reshapes>>

----------------------------------------------------------------------------
(* The state after construction: nothing resolved, no blob shaped yet. *)

Empty == [k \in {} |-> 0]

Constructed ==
  /\ status = "new"
  /\ check_failed = "none"
  /\ kernel_h_ = 0 /\ kernel_w_ = 0 /\ pad_h_ = 0 /\ pad_w_ = 0
  /\ stride_h_ = 0 /\ stride_w_ = 0
  /\ channels_ = 0 /\ height_ = 0 /\ width_ = 0
  /\ unpooled_height_ = 0 /\ unpooled_width_ = 0
  /\ bottom_shape = <<0, 0, 0, 0>>
  /\ top_shape = <<0, 0, 0, 0>>
  /\ bottom_data = Empty /\ bottom_diff = Empty /\ bottom_mask = Empty
  /\ top_data = Empty /\ top_diff = Empty
  /\ forwarded = FALSE
  /\ reshapes = 0
  /\ last = "none"

(* Setup over every presence / value combination of the nine fields. *)
InitSetup == unpool_param \in Params /\ Constructed

NextSetup == LayerSetUp

SpecSetup == InitSetup /\ [][NextSetup]_vars

----------------------------------------------------------------------------
(* Reshape *)

Zeros(n) == [k \in 0..(n - 1) |-> 0]

Count(shape) == shape[1] * shape[2] * shape[3] * shape[4]

(* Lines 72-73. *)
UnpooledDimSinglePad(in, stride, kernel, pad) ==
  (in - 1) * stride + kernel - pad

UnpooledDim(in, stride, kernel, pad) ==
  (in - 1) * stride + kernel - 2 * pad

(* Blob::Reshape(num, channels, height, width) of top[0]: the blob takes    *)
(* the shape it is given.                                                   *)
TopReshape(n, c, h, w) == <<n, c, h, w>>

(* Reshape(bottom, top), called with bottom[0] (and the mask bottom[1])     *)
(* shaped inShape by the caller; freshly shaped blobs hold zeros.           *)
Reshape(inShape) ==
  /\ status = "ready"
  /\ reshapes < MaxReshapes
  /\ reshapes' = reshapes + 1
  /\ bottom_shape' = inShape
  /\ channels_' = inShape[2]
  /\ height_' = inShape[3]
  /\ width_' = inShape[4]
  /\ unpooled_height_' = UnpooledDim(inShape[3], stride_h_, kernel_h_, pad_h_)
  /\ unpooled_width_' = UnpooledDim(inShape[4], stride_w_, kernel_w_, pad_w_)
  /\ top_shape' = TopReshape(inShape[1], channels_', unpooled_height_', unpooled_width_')
  /\ bottom_data' = Zeros(Count(inShape))
  /\ bottom_diff' = Zeros(Count(inShape))
  /\ bottom_mask' = Zeros(Count(inShape))
  /\ top_data' = Zeros(Count(top_shape'))
  /\ top_diff' = Zeros(Count(top_shape'))
  /\ forwarded' = FALSE
  /\ last' = "reshape"
  /\ UNCHANGED <<unpool_param, status, check_failed, resolved>>

InShapes == (1..MaxDim) \X (1..MaxDim) \X (1..MaxDim) \X (1..MaxDim)

(* Reshape is exercised on the configurations given in one form throughout: *)
(* all scalar or all per-axis.                                              *)
ReshapeParams ==
  [kernel_size : {<<>>}, kernel_h : Optional(MaxKernel), kernel_w : Optional(MaxKernel),
   pad : {<<>>}, pad_h : Optional(MaxPad), pad_w : Optional(MaxPad),
   stride : {<<>>}, stride_h : Optional(MaxStride), stride_w : Optional(MaxStride)]
  \cup
  [kernel_size : Optional(MaxKernel), kernel_h : {<<>>}, kernel_w : {<<>>},
   pad : Optional(MaxPad), pad_h : {<<>>}, pad_w : {<<>>},
   stride : Optional(MaxStride), stride_h : {<<>>}, stride_w : {<<>>}]

InitReshape == unpool_param \in ReshapeParams /\ Constructed

NextReshape ==
  \/ LayerSetUp
  \/ \E inShape \in InShapes : Reshape(inShape)

SpecReshape == InitReshape /\ [][NextReshape]_vars

----------------------------------------------------------------------------
(* Forward_cpu and Backward_cpu *)

(* Blob::offset(0, 1): the distance between consecutive channel slices.     *)
Offset01(shape) == shape[3] * shape[4]

(* caffe_set(n, alpha, buf): buf[0..n-1] = alpha.                           *)
CaffeSet(n, alpha, buf) == [k \in DOMAIN buf |-> IF k < n THEN alpha ELSE buf[k]]

(* Line 90: the output buffer as the main loop of Forward_cpu finds it.     *)
ForwardClearedKeepsOld == top_data

ForwardCleared == CaffeSet(Count(top_shape), 0, top_data)

(* Lines 94-108. st holds the loop counters, the three moving pointers      *)
(* (as offsets into the flat buffers) and the output written so far. The    *)
(* pointers advance at the end of the body of the channel loop.             *)
RECURSIVE ForwardLoopAccumulates(_)
ForwardLoopAccumulates(st) ==
  IF st.n >= bottom_shape[1] THEN st.buf
  ELSE IF st.c >= channels_ THEN ForwardLoopAccumulates([st EXCEPT !.n = @ + 1, !.c = 0])
  ELSE IF st.ph >= height_
  THEN ForwardLoopAccumulates([st EXCEPT !.c = @ + 1, !.ph = 0,
                                 !.bottom_data = @ + Offset01(bottom_shape),
                                 !.top_data = @ + Offset01(top_shape),
                                 !.bottom_mask = @ + Offset01(bottom_shape)])
  ELSE IF st.pw >= width_ THEN ForwardLoopAccumulates([st EXCEPT !.ph = @ + 1, !.pw = 0])
  ELSE LET index == st.ph * width_ + st.pw
           mask_index == bottom_mask[st.bottom_mask + index]
       IN ForwardLoopAccumulates([st EXCEPT !.pw = @ + 1,
                 !.buf[st.top_data + mask_index] = @ + bottom_data[st.bottom_data + index]])

RECURSIVE ForwardLoop(_)
ForwardLoop(st) ==
  IF st.n >= bottom_shape[1] THEN st.buf
  ELSE IF st.c >= channels_ THEN ForwardLoop([st EXCEPT !.n = @ + 1, !.c = 0])
  ELSE IF st.ph >= height_
  THEN ForwardLoop([st EXCEPT !.c = @ + 1, !.ph = 0,
                      !.bottom_data = @ + Offset01(bottom_shape),
                      !.top_data = @ + Offset01(top_shape),
                      !.bottom_mask = @ + Offset01(bottom_shape)])
  ELSE IF st.pw >= width_ THEN ForwardLoop([st EXCEPT !.ph = @ + 1, !.pw = 0])
  ELSE LET index == st.ph * width_ + st.pw
           mask_index == bottom_mask[st.bottom_mask + index]
       IN ForwardLoop([st EXCEPT !.pw = @ + 1,
                 !.buf[st.top_data + mask_index] = bottom_data[st.bottom_data + index]])

LoopStart(buf) ==
  [n |-> 0, c |-> 0, ph |-> 0, pw |-> 0,
   bottom_data |-> 0, top_data |-> 0, bottom_mask |-> 0, buf |-> buf]

Forward_cpu ==
  /\ status = "ready"
  /\ reshapes > 0
  /\ top_data' = ForwardLoop(LoopStart(ForwardCleared))
  /\ forwarded' = TRUE
  /\ last' = "forward"
  /\ UNCHANGED <<unpool_param, status, check_failed, resolved, shapeState,
                 bottom_data, bottom_diff, bottom_mask, top_diff, reshapes>>

(* Lines 125-139. Here st.bottom_data and st.top_data are the offsets of    *)
(* the bottom_diff and top_diff pointers. The pointers advance after the    *)
(* channel loop has ended, in the body of the batch loop.                   *)
RECURSIVE BackwardLoop(_)
BackwardLoop(st) ==
  IF st.n >= top_shape[1] THEN st.buf
  ELSE IF st.c >= channels_
  THEN BackwardLoop([st EXCEPT !.n = @ + 1, !.c = 0,
                       !.bottom_data = @ + Offset01(bottom_shape),
                       !.top_data = @ + Offset01(top_shape),
                       !.bottom_mask = @ + Offset01(bottom_shape)])
  ELSE IF st.ph >= height_ THEN BackwardLoop([st EXCEPT !.c = @ + 1, !.ph = 0])
  ELSE IF st.pw >= width_ THEN BackwardLoop([st EXCEPT !.ph = @ + 1, !.pw = 0])
  ELSE LET index == st.ph * width_ + st.pw
           mask_index == bottom_mask[st.bottom_mask + index]
       IN BackwardLoop([st EXCEPT !.pw = @ + 1,
                 !.buf[st.bottom_data + index] = top_diff[st.top_data + mask_index]])

(* Lines 114-139: bottom_diff after Backward_cpu. *)
BackwardResultClearsFirst(propagate_down) ==
  IF ~propagate_down
  THEN CaffeSet(Count(bottom_shape), 0, bottom_diff)
  ELSE BackwardLoop(LoopStart(CaffeSet(Count(bottom_shape), 0, bottom_diff)))

BackwardResult(propagate_down) ==
  IF ~propagate_down
  THEN bottom_diff
  ELSE BackwardLoop(LoopStart(CaffeSet(Count(bottom_shape), 0, bottom_diff)))

Backward_cpu(propagate_down) ==
  /\ status = "ready"
  /\ reshapes > 0
  /\ bottom_diff' = BackwardResult(propagate_down)
  /\ last' = IF propagate_down THEN "backward" ELSE "backward_skip"
  /\ UNCHANGED <<unpool_param, status, check_failed, resolved, shapeState,
                 bottom_data, bottom_mask, top_data, top_diff, forwarded, reshapes>>

(* The caller of the round trip: the output values of a forward pass        *)
(* become the output gradient.                                              *)
CopyDataToDiff ==
  /\ status = "ready"
  /\ forwarded
  /\ top_diff' = top_data
  /\ last' = "copy"
  /\ UNCHANGED <<unpool_param, status, check_failed, resolved, shapeState,
                 bottom_data, bottom_diff, bottom_mask, top_data, forwarded, reshapes>>

(* The kernels run on a layer set up with stride 1, no pad and a kernel of  *)
(* 1 x 2 or 2 x 1, reshaped for an input of 1 x 2 or 2 x 1 positions per    *)
(* slice: two inputs scatter into three outputs.                            *)
KernelSetups ==
  {[kernel_h |-> 1, kernel_w |-> 2, height |-> 1, width |-> 2],
   [kernel_h |-> 2, kernel_w |-> 1, height |-> 2, width |-> 1]}

KernelParam(setup) ==
  [kernel_size |-> <<>>, kernel_h |-> <<setup.kernel_h>>, kernel_w |-> <<setup.kernel_w>>,
   pad |-> <<>>, pad_h |-> <<>>, pad_w |-> <<>>,
   stride |-> <<>>, stride_h |-> <<>>, stride_w |-> <<>>]

Ramp(seed, n) == [k \in 0..(n - 1) |-> seed + k]

(* The state after LayerSetUp and one Reshape, with the caller's values in  *)
(* the blobs: the input values, a mask of indices into each slice's output  *)
(* area, an output gradient, and old nonzero contents in the buffers the    *)
(* kernels write.                                                           *)
InitKernel ==
  \E setup \in KernelSetups, num \in 1..MaxNum, channels \in 1..MaxChannels,
     seed \in 0..MaxSeed :
    LET p == KernelParam(setup)
        inShape == <<num, channels, setup.height, setup.width>>
        uh == UnpooledDim(setup.height, ResolveStrideH(p), ResolveKernelH(p), ResolvePadH(p))
        uw == UnpooledDim(setup.width, ResolveStrideW(p), ResolveKernelW(p), ResolvePadW(p))
        outShape == TopReshape(num, channels, uh, uw)
    IN /\ num * channels <= MaxSlices
       /\ unpool_param = p
       /\ status = "ready"
       /\ check_failed = "none"
       /\ kernel_h_ = ResolveKernelH(p) /\ kernel_w_ = ResolveKernelW(p)
       /\ pad_h_ = ResolvePadH(p) /\ pad_w_ = ResolvePadW(p)
       /\ stride_h_ = ResolveStrideH(p) /\ stride_w_ = ResolveStrideW(p)
       /\ channels_ = channels /\ height_ = setup.height /\ width_ = setup.width
       /\ unpooled_height_ = uh /\ unpooled_width_ = uw
       /\ bottom_shape = inShape
       /\ top_shape = outShape
       /\ bottom_data = Ramp(seed, Count(inShape))
       /\ bottom_diff = Ramp(seed + 1, Count(inShape))
       /\ bottom_mask \in [0..(Count(inShape) - 1) -> 0..(uh * uw - 1)]
       /\ top_data = Ramp(seed + 1, Count(outShape))
       /\ top_diff = Ramp(seed, Count(outShape))
       /\ forwarded = FALSE
       /\ reshapes = 1
       /\ last = "reshape"

NextKernel ==
  \/ Forward_cpu
  \/ \E propagate_down \in BOOLEAN : Backward_cpu(propagate_down)
  \/ CopyDataToDiff

SpecKernel == InitKernel /\ [][NextKernel]_vars

----------------------------------------------------------------------------
(* C6: once LayerSetUp has run, it aborted on a kernel-form CHECK exactly   *)
(* when it is not the case that exactly one of {kernel_size present} and    *)
(* {kernel_h and kernel_w both present} holds; in particular both forms     *)
(* together, and neither form, are rejected.                                *)
C6_KernelFormExactlyOne ==
  status # "new" =>
    LET scalar == Len(unpool_param.kernel_size) = 1
        pair == Len(unpool_param.kernel_h) = 1 /\ Len(unpool_param.kernel_w) = 1
        exactlyOne == (scalar /\ ~pair) \/ (~scalar /\ pair)
    IN /\ (check_failed \in {"kernel_form", "kernel_required"}) <=> ~exactlyOne
       /\ (scalar /\ pair) => status = "failed"
       /\ (~scalar /\ ~pair) => status = "failed"

C6_Witness_BothFormsRejected ==
  /\ status = "failed"
  /\ check_failed = "kernel_form"
  /\ Len(unpool_param.kernel_size) = 1
  /\ Len(unpool_param.kernel_h) = 1
  /\ Len(unpool_param.kernel_w) = 1

(* C7: once LayerSetUp has run, every mixed pad (stride) specification was  *)
(* rejected, a well-formed one never aborts on the pad (stride) form CHECK, *)
(* and on success the resolved pad (stride) is the per-axis pair when that  *)
(* form was given and the scalar field's value on both axes otherwise.      *)
C7_PadStrideForms ==
  status # "new" =>
    LET p == unpool_param
        present(f) == Len(f) = 1
        mixed(s, h, w) == (present(s) /\ (present(h) \/ present(w)))
                            \/ (present(h) # present(w))
        scalarValue(s, default) == IF present(s) THEN s[1] ELSE default
    IN /\ mixed(p.pad, p.pad_h, p.pad_w) => status = "failed"
       /\ mixed(p.stride, p.stride_h, p.stride_w) => status = "failed"
       /\ ~mixed(p.pad, p.pad_h, p.pad_w) => check_failed # "pad_form"
       /\ ~mixed(p.stride, p.stride_h, p.stride_w) => check_failed # "stride_form"
       /\ status = "ready" =>
            /\ IF present(p.pad_h) /\ present(p.pad_w)
               THEN pad_h_ = p.pad_h[1] /\ pad_w_ = p.pad_w[1]
               ELSE pad_h_ = scalarValue(p.pad, DefaultPad)
                    /\ pad_w_ = scalarValue(p.pad, DefaultPad)
            /\ IF present(p.stride_h) /\ present(p.stride_w)
               THEN stride_h_ = p.stride_h[1] /\ stride_w_ = p.stride_w[1]
               ELSE stride_h_ = scalarValue(p.stride, DefaultStride)
                    /\ stride_w_ = scalarValue(p.stride, DefaultStride)

C7_Witness_PerAxisAccepted ==
  /\ status = "ready"
  /\ Len(unpool_param.pad_h) = 1 /\ Len(unpool_param.pad_w) = 1
  /\ Len(unpool_param.stride_h) = 1 /\ Len(unpool_param.stride_w) = 1
  /\ pad_h_ # pad_w_
  /\ stride_h_ # stride_w_

(* C8: LayerSetUp succeeds only with kernel_h, kernel_w > 0 and, when a pad *)
(* is nonzero, pad_h < kernel_h and pad_w < kernel_w; and every             *)
(* configuration that passes the presence CHECKs with a kernel dimension of *)
(* 0, or a nonzero pad >= the matching kernel dimension, is rejected.       *)
C8_KernelPositivePadBelowKernel ==
  /\ status = "ready" =>
       /\ kernel_h_ > 0 /\ kernel_w_ > 0
       /\ (pad_h_ # 0 \/ pad_w_ # 0) => (pad_h_ < kernel_h_ /\ pad_w_ < kernel_w_)
  /\ (status # "new"
        /\ check_failed \notin {"kernel_form", "kernel_required", "pad_form", "stride_form"}) =>
       LET p == unpool_param
           kh == IF Len(p.kernel_size) = 1 THEN p.kernel_size[1] ELSE p.kernel_h[1]
           kw == IF Len(p.kernel_size) = 1 THEN p.kernel_size[1] ELSE p.kernel_w[1]
           ph == IF Len(p.pad_h) = 1 THEN p.pad_h[1]
                 ELSE IF Len(p.pad) = 1 THEN p.pad[1] ELSE DefaultPad
           pw == IF Len(p.pad_w) = 1 THEN p.pad_w[1]
                 ELSE IF Len(p.pad) = 1 THEN p.pad[1] ELSE DefaultPad
       IN (kh = 0 \/ kw = 0 \/ (ph # 0 /\ ph >= kh) \/ (pw # 0 /\ pw >= kw))
            => status = "failed"

C8_Witness_NonzeroPadAccepted ==
  status = "ready" /\ pad_h_ # 0 /\ pad_w_ # 0 /\ kernel_h_ > pad_h_

(* C9 (as claimed): whenever LayerSetUp succeeds, the resolved stride_h and *)
(* stride_w are strictly positive.                                          *)
C9_StridePositive ==
  status = "ready" => (stride_h_ > 0 /\ stride_w_ > 0)

(* C5: after LayerSetUp and any sequence of Reshape calls, channels, height *)
(* and width are those of the most recent input shape, the unpooled         *)
(* dimensions are (dim - 1)*stride + kernel - 2*pad, top[0] has shape       *)
(* (num, channels, unpooled_height, unpooled_width), and kernel, pad and    *)
(* stride are still the values LayerSetUp resolved from the configuration.  *)
C5_ReshapeReflectsLatestInput ==
  (status = "ready" /\ reshapes > 0) =>
    LET p == unpool_param
        scalarForm == Len(p.kernel_size) = 1
        kh == IF scalarForm THEN p.kernel_size[1] ELSE p.kernel_h[1]
        kw == IF scalarForm THEN p.kernel_size[1] ELSE p.kernel_w[1]
        ph == IF Len(p.pad_h) = 1 THEN p.pad_h[1]
              ELSE IF Len(p.pad) = 1 THEN p.pad[1] ELSE DefaultPad
        pw == IF Len(p.pad_w) = 1 THEN p.pad_w[1]
              ELSE IF Len(p.pad) = 1 THEN p.pad[1] ELSE DefaultPad
        sh == IF Len(p.stride_h) = 1 THEN p.stride_h[1]
              ELSE IF Len(p.stride) = 1 THEN p.stride[1] ELSE DefaultStride
        sw == IF Len(p.stride_w) = 1 THEN p.stride_w[1]
              ELSE IF Len(p.stride) = 1 THEN p.stride[1] ELSE DefaultStride
    IN /\ channels_ = bottom_shape[2]
       /\ height_ = bottom_shape[3]
       /\ width_ = bottom_shape[4]
       /\ unpooled_height_ = (bottom_shape[3] - 1) * sh + kh - 2 * ph
       /\ unpooled_width_ = (bottom_shape[4] - 1) * sw + kw - 2 * pw
       /\ top_shape = <<bottom_shape[1], bottom_shape[2], unpooled_height_, unpooled_width_>>
       /\ <<kernel_h_, kernel_w_, pad_h_, pad_w_, stride_h_, stride_w_>>
            = <<kh, kw, ph, pw, sh, sw>>

C5_Witness_SecondReshapeWithPad ==
  /\ status = "ready"
  /\ reshapes = 2
  /\ pad_h_ # 0
  /\ height_ = 2 /\ width_ = 1
  /\ unpooled_height_ # unpooled_width_

----------------------------------------------------------------------------
(* Blob addressing used to state the kernel claims: element i of the input  *)
(* slice (n, c), element t of the output slice (n, c).                      *)

Batches == 0..(bottom_shape[1] - 1)
Channels == 0..(bottom_shape[2] - 1)
InPositions == 0..(bottom_shape[3] * bottom_shape[4] - 1)
OutPositions == 0..(top_shape[3] * top_shape[4] - 1)

InAt(n, c, i) == (n * bottom_shape[2] + c) * (bottom_shape[3] * bottom_shape[4]) + i
OutAt(n, c, t) == (n * top_shape[2] + c) * (top_shape[3] * top_shape[4]) + t

MaskOf(n, c, i) == bottom_mask[InAt(n, c, i)]

WellFormedSlice(n, c) ==
  /\ \A i \in InPositions : MaskOf(n, c, i) \in OutPositions
  /\ \A i, j \in InPositions : i # j => MaskOf(n, c, i) # MaskOf(n, c, j)

Referents(n, c, t) == {i \in InPositions : MaskOf(n, c, i) = t}

Largest(S) == CHOOSE x \in S : \A y \in S : y <= x

(* C1 (as claimed): after Backward_cpu with propagate_down[0] = true, the   *)
(* input gradient at (n, c, i) equals the output gradient of slice (n, c)   *)
(* at position mask[n][c][i], for every batch n, channel c and position i.  *)
C1_BackwardGathersEverySlice ==
  last = "backward" =>
    \A n \in Batches, c \in Channels, i \in InPositions :
      bottom_diff[InAt(n, c, i)] = top_diff[OutAt(n, c, MaskOf(n, c, i))]

(* C2 (as claimed): with a well-formed mask in every slice, Forward_cpu,    *)
(* then the output copied into the output gradient, then Backward_cpu with  *)
(* propagation leaves the input gradient equal to the input.                *)
C2_RoundTripRestoresInput ==
  (/\ last = "backward"
   /\ forwarded
   /\ top_diff = top_data
   /\ \A n \in Batches, c \in Channels : WellFormedSlice(n, c))
  => bottom_diff = bottom_data

(* C3: after Forward_cpu, in every slice whose mask entries are distinct    *)
(* in-range targets, the output at mask[i] is the input at i and every      *)
(* output position no mask entry names is 0, whatever the buffer held.      *)
C3_ForwardScattersAndZeroes ==
  forwarded =>
    \A n \in Batches, c \in Channels :
      WellFormedSlice(n, c) =>
        /\ \A i \in InPositions :
             top_data[OutAt(n, c, MaskOf(n, c, i))] = bottom_data[InAt(n, c, i)]
        /\ \A t \in OutPositions :
             Referents(n, c, t) = {} => top_data[OutAt(n, c, t)] = 0

C3_Witness_WellFormedBesideCollision ==
  /\ forwarded
  /\ bottom_shape[1] = 2 /\ bottom_shape[2] = 2
  /\ WellFormedSlice(1, 1)
  /\ ~WellFormedSlice(0, 1)
  /\ \E t \in OutPositions : Referents(1, 1, t) = {} /\ top_data[OutAt(1, 1, t)] = 0
  /\ \E i \in InPositions : bottom_data[InAt(1, 1, i)] # 0

(* C4: a Backward_cpu call with propagate_down[0] = false leaves the input  *)
(* gradient, the output gradient and the mask as they were.                 *)
C4_BackwardSkipChangesNothing ==
  [][last' = "backward_skip" =>
       /\ bottom_diff' = bottom_diff
       /\ top_diff' = top_diff
       /\ bottom_mask' = bottom_mask
       /\ bottom_data' = bottom_data
       /\ top_data' = top_data]_vars

C4_Witness_SkipKeepsNonzeroGradient ==
  /\ last = "backward_skip"
  /\ \E k \in DOMAIN bottom_diff : bottom_diff[k] # 0

(* C10: after Forward_cpu, an output position named by one or more mask     *)
(* entries of its slice holds the input value at the largest such flat      *)
(* index, in every slice, whether or not other slices collide: the later    *)
(* write wins and nothing is accumulated.                                   *)
C10_LastWriteWins ==
  forwarded =>
    \A n \in Batches, c \in Channels, t \in OutPositions :
      Referents(n, c, t) # {} =>
        top_data[OutAt(n, c, t)] = bottom_data[InAt(n, c, Largest(Referents(n, c, t)))]

C10_Witness_CollisionInOneSlice ==
  /\ forwarded
  /\ bottom_shape[1] * bottom_shape[2] >= 2
  /\ \E t \in OutPositions :
       /\ Cardinality(Referents(0, 0, t)) >= 2
       /\ \A i \in Referents(0, 0, t) : bottom_data[InAt(0, 0, i)] # 0
       /\ top_data[OutAt(0, 0, t)] = bottom_data[InAt(0, 0, Largest(Referents(0, 0, t)))]
  /\ \E n \in Batches, c \in Channels : <<n, c>> # <<0, 0>> /\ WellFormedSlice(n, c)

=============================================================================
